---- MODULE Spec2Model ----
(***************************************************************************)
(* Model of EnhancedJobScraper (src/updated-modified-jobspy.py, and the    *)
(* single-request variant src/modified-jobspy.py): the field extraction    *)
(* (safe_extract, extract_additional_details), the batched collection loop *)
(* (scrape_batch, scrape) and the per-posting pipeline of scrape.          *)
(*                                                                         *)
(* A text is a sequence of characters, a character a one-character string  *)
(* (BULLET stands for U+2022).  Python's None is None where a str may be,  *)
(* NoneList where a list may be: values no text and no list is equal to.   *)
(***************************************************************************)
EXTENDS Integers, Sequences, FiniteSets, TLC

None == <<"None">>
NoneList == <<None>>
BULLET == "u2022"
NL == "\n"
CR == "\r"
TAB == "\t"

\* str.strip() and the pattern class \s: the whitespace characters.
WS == {" ", NL, CR, TAB}
DIGITS == {"0", "1", "2", "3", "4", "5", "6", "7", "8", "9"}
MARKERS == {"-", BULLET, "*"}

\* re.IGNORECASE: letters are compared by their lower-case form.
LowerMap ==
  ("A" :> "a") @@ ("B" :> "b") @@ ("C" :> "c") @@ ("D" :> "d") @@ ("E" :> "e") @@
  ("F" :> "f") @@ ("G" :> "g") @@ ("H" :> "h") @@ ("I" :> "i") @@ ("J" :> "j") @@
  ("K" :> "k") @@ ("L" :> "l") @@ ("M" :> "m") @@ ("N" :> "n") @@ ("O" :> "o") @@
  ("P" :> "p") @@ ("Q" :> "q") @@ ("R" :> "r") @@ ("S" :> "s") @@ ("T" :> "t") @@
  ("U" :> "u") @@ ("V" :> "v") @@ ("W" :> "w") @@ ("X" :> "x") @@ ("Y" :> "y") @@
  ("Z" :> "z")

Lower(c) == IF c \in DOMAIN LowerMap THEN LowerMap[c] ELSE c

(***************************************************************************)
(* Regular expressions, as the re module matches them: a backtracking      *)
(* matcher that takes the first way to match the whole pattern, the        *)
(* alternatives tried in order and greedy repetitions longest count first. *)
(***************************************************************************)
\* An open upper count of a repetition (+, *, {n,}).
Inf == 0 - 1

Lit(s) == [t |-> "lit", s |-> s]                    \* the characters of s, in order
In(cs) == [t |-> "set", cs |-> cs, neg |-> FALSE]   \* [cs]
NotIn(cs) == [t |-> "set", cs |-> cs, neg |-> TRUE] \* [^cs]
Dot == NotIn({NL})                                  \* . (no DOTALL)
Rep(r, lo, hi) == [t |-> "rep", r |-> r, lo |-> lo, hi |-> hi]   \* r{lo,hi}, greedy
Cat(rs) == [t |-> "cat", rs |-> rs]
Alt(rs) == [t |-> "alt", rs |-> rs]
Grp(r) == [t |-> "grp", r |-> r]                    \* capturing group 1
Bol == [t |-> "bol"]                                \* ^ under re.MULTILINE
Eol == [t |-> "eol"]                                \* $ under re.MULTILINE

\* A match: e is the position after the last matched character (0: no match),
\* gs..ge-1 the span of group 1 (gs = 0: the group did not take part).
NoMatch == [e |-> 0, gs |-> 0, ge |-> 0]

InSet(node, c) == IF node.neg THEN c \notin node.cs ELSE Lower(c) \in node.cs

LitAt(txt, s, i) ==
  /\ i + Len(s) - 1 <= Len(txt)
  /\ \A j \in 1..Len(s) : Lower(txt[i + j - 1]) = Lower(s[j])

\* The number of characters from position i on that are in the class, at most hi.
RunLen(txt, node, i, hi) ==
  LET last == IF hi = Inf \/ i + hi - 1 > Len(txt) THEN Len(txt) ELSE i + hi - 1
      out == {p \in i..last : ~InSet(node, txt[p])}
  IN IF out = {} THEN last + 1 - i
     ELSE (CHOOSE p \in out : \A q \in out : p <= q) - i

\* The pattern that closes group 1, opened at position s0.
Close(s0) == [t |-> "close", s0 |-> s0]

\* The first pattern of k is of type t.
Is(k, t) == k # <<>> /\ k[1].t = t

RECURSIVE MatchHere(_, _, _)
RECURSIVE TryAlts(_, _, _, _, _)
RECURSIVE TryFewer(_, _, _, _, _)

\* The alternatives rs[n..], in order: the first after which the rest matches.
TryAlts(txt, rs, n, k, m) ==
  IF n > Len(rs) THEN NoMatch
  ELSE LET a == MatchHere(txt, <<rs[n]>> \o k, m)
       IN IF a.e # 0 THEN a ELSE TryAlts(txt, rs, n + 1, k, m)

\* A one-character class taken lo to hi times, the larger counts tried first: the
\* first count after which the rest of the pattern matches.
TryFewer(txt, k, m, lo, hi) ==
  IF lo = hi THEN MatchHere(txt, k, [m EXCEPT !.e = @ + lo])
  ELSE LET mid == (lo + hi) \div 2
           a == TryFewer(txt, k, m, mid + 1, hi)
       IN IF a.e # 0 THEN a ELSE TryFewer(txt, k, m, lo, mid)

\* A greedy repetition of a one-character class that can take lo to hi characters:
\* all of them, or else the largest smaller count that lets the rest match.
TryCounts(txt, k, m, lo, hi) ==
  IF lo > hi THEN NoMatch
  ELSE LET a == MatchHere(txt, k, [m EXCEPT !.e = @ + hi])
       IN IF a.e # 0 \/ lo = hi THEN a ELSE TryFewer(txt, k, m, lo, hi - 1)

\* A greedy repetition of a pattern: once more and then the rest of the counts, or
\* else, when no more is needed, the rest of the pattern.
TryMore(txt, k, m) ==
  LET r == k[1]
      more == Rep(r.r, IF r.lo > 0 THEN r.lo - 1 ELSE 0,
                  IF r.hi = Inf THEN Inf ELSE r.hi - 1)
      a == IF r.hi = 0 THEN NoMatch ELSE MatchHere(txt, <<r.r, more>> \o Tail(k), m)
  IN IF a.e # 0 \/ r.lo > 0 THEN a ELSE MatchHere(txt, Tail(k), m)

\* Match the patterns of k, in order, after the match m.
MatchHere(txt, k, m) ==
  CASE k = <<>> -> m
    [] Is(k, "lit") /\ LitAt(txt, k[1].s, m.e) ->
         MatchHere(txt, Tail(k), [m EXCEPT !.e = @ + Len(k[1].s)])
    [] Is(k, "set") /\ m.e <= Len(txt) /\ InSet(k[1], txt[m.e]) ->
         MatchHere(txt, Tail(k), [m EXCEPT !.e = @ + 1])
    [] Is(k, "bol") /\ (m.e = 1 \/ txt[m.e - 1] = NL) -> MatchHere(txt, Tail(k), m)
    [] Is(k, "eol") /\ (m.e = Len(txt) + 1 \/ txt[m.e] = NL) ->
         MatchHere(txt, Tail(k), m)
    [] Is(k, "cat") -> MatchHere(txt, k[1].rs \o Tail(k), m)
    [] Is(k, "alt") -> TryAlts(txt, k[1].rs, 1, Tail(k), m)
    [] Is(k, "grp") -> MatchHere(txt, <<k[1].r, Close(m.e)>> \o Tail(k), m)
    [] Is(k, "close") -> MatchHere(txt, Tail(k), [m EXCEPT !.gs = k[1].s0, !.ge = m.e])
    [] Is(k, "rep") /\ k[1].r.t = "set" ->
         TryCounts(txt, Tail(k), m, k[1].lo, RunLen(txt, k[1].r, m.e, k[1].hi))
    [] Is(k, "rep") /\ k[1].r.t # "set" -> TryMore(txt, k, m)
    [] OTHER -> NoMatch

\* The match of the pattern at position i.
MatchAt(txt, re, i) == MatchHere(txt, <<re>>, [e |-> i, gs |-> 0, ge |-> 0])

\* re.search from position from on: the match at the leftmost position that has one.
\* s is the position the match starts at (0: no match).
SearchFrom(txt, re, from) ==
  LET hits == {p \in from..(Len(txt) + 1) : MatchAt(txt, re, p).e # 0}
  IN IF hits = {} THEN [s |-> 0, e |-> 0, gs |-> 0, ge |-> 0]
     ELSE LET p == CHOOSE q \in hits : \A q2 \in hits : q <= q2
              m == MatchAt(txt, re, p)
          IN [s |-> p, e |-> m.e, gs |-> m.gs, ge |-> m.ge]

Search(txt, re) == SearchFrom(txt, re, 1)

\* match.group(1) if match.groups() else match.group(0)
HasGroup(re) ==
  \/ re.t = "grp"
  \/ re.t = "cat" /\ \E n \in 1..Len(re.rs) : re.rs[n].t = "grp"

GroupOrWhole(txt, re, m) ==
  IF HasGroup(re) THEN SubSeq(txt, m.gs, m.ge - 1) ELSE SubSeq(txt, m.s, m.e - 1)

\* str.strip()
Strip(s) ==
  LET ink == {p \in 1..Len(s) : s[p] \notin WS}
  IN IF ink = {} THEN <<>>
     ELSE SubSeq(s, CHOOSE p \in ink : \A q \in ink : p <= q,
                    CHOOSE p \in ink : \A q \in ink : p >= q)

\* Python truthiness of an Optional[str] and of an Optional[List[str]]
Truthy(v) == v # None /\ v # <<>>
TruthyList(v) == v # NoneList /\ v # <<>>

(***************************************************************************)
(* safe_extract                                                            *)
(***************************************************************************)
RECURSIVE SafeExtractFrom(_, _, _)
\* The patterns n.. of the list, in order: the first that matches decides.
SafeExtractFrom(text, patterns, n) ==
  IF n > Len(patterns) THEN None
  ELSE LET m == Search(text, patterns[n])
       IN IF m.s # 0 THEN Strip(GroupOrWhole(text, patterns[n], m))
          ELSE SafeExtractFrom(text, patterns, n + 1)

safe_extract(text, patterns) == SafeExtractFrom(text, patterns, 1)

(***************************************************************************)
(* The patterns of extract_additional_details                              *)
(***************************************************************************)
SUMMARY_MIN == 50
SUMMARY_MAX == 200
FALLBACK_LEN == 200

Plus(r) == Rep(r, 1, Inf)
Star(r) == Rep(r, 0, Inf)
Opt(r) == Rep(r, 0, 1)

summary_patterns == <<
  \* ^([^.]+(?:[.]+[^.]+){0,2}\.)
  Cat(<<Bol, Grp(Cat(<<Plus(NotIn({"."})),
                        Rep(Cat(<<Plus(In({"."})), Plus(NotIn({"."}))>>), 0, 2),
                        Lit(<<".">>)>>))>>),
  \* ^(.{50,200}(?:[.]|$))
  Cat(<<Bol, Grp(Cat(<<Rep(Dot, SUMMARY_MIN, SUMMARY_MAX), Alt(<<In({"."}), Eol>>)>>))>> ) >>

HEADERS == <<
  Lit(<<"E", "s", "s", "e", "n", "t", "i", "a", "l", " ", "F", "u", "n", "c", "t", "i", "o", "n", "s">>),
  Lit(<<"R", "e", "s", "p", "o", "n", "s", "i", "b", "i", "l", "i", "t", "i", "e", "s">>),
  Lit(<<"D", "u", "t", "i", "e", "s">>),
  Lit(<<"K", "e", "y", " ", "R", "e", "s", "p", "o", "n", "s", "i", "b", "i", "l", "i", "t", "i", "e", "s">>),
  Lit(<<"W", "h", "a", "t", " ", "Y", "o", "u", "'", "l", "l", " ", "D", "o">>) >>

\* \s*[-•\*]\s*[^\n]+\n*   (one bullet line)
BulletLine == <<Star(In(WS)), In(MARKERS), Star(In(WS)), Plus(NotIn({NL})), Star(In({NL}))>>

functions_patterns == <<
  \* (?:Essential Functions|...|What You'll Do)[:]\s*((?:\s*[-•\*]\s*[^\n]+\n*)+)
  Cat(<<Alt(HEADERS), In({":"}), Star(In(WS)), Grp(Plus(Cat(BulletLine)))>>),
  \* (?:\n\s*[-•\*]\s*[^\n]+\n*){2,}
  Rep(Cat(<<Lit(<<NL>>)>> \o BulletLine), 2, Inf) >>

\* [-•\*]\s*([^\n]+)
bullet_pattern == Cat(<<In(MARKERS), Star(In(WS)), Grp(Plus(NotIn({NL})))>>)

\* [^•\n.]+
Context == Plus(NotIn({BULLET, NL, "."}))
\* \s*([^\n\r•]*)
LabelValue == <<Star(In(WS)), Grp(Star(NotIn({NL, CR, BULLET})))>>
Requirements == <<Lit(<<"R", "e", "q", "u", "i", "r", "e", "m", "e", "n", "t">>), Opt(In({"s"}))>>
Years == <<Lit(<<"y", "e", "a", "r">>), Opt(In({"s"}))>>

education_patterns == <<
  \* Education[^:]*:\s*([^\n\r•]*)
  Cat(<<Lit(<<"E", "d", "u", "c", "a", "t", "i", "o", "n">>), Star(NotIn({":"})),
        Lit(<<":">>)>> \o LabelValue),
  \* Qualifications[^:]*:\s*([^\n\r•]*)
  Cat(<<Lit(<<"Q", "u", "a", "l", "i", "f", "i", "c", "a", "t", "i", "o", "n", "s">>),
        Star(NotIn({":"})), Lit(<<":">>)>> \o LabelValue),
  \* (?:Bachelor|Master|PhD|degree)[^•\n.]+
  Cat(<<Alt(<<Lit(<<"B", "a", "c", "h", "e", "l", "o", "r">>),
              Lit(<<"M", "a", "s", "t", "e", "r">>),
              Lit(<<"P", "h", "D">>),
              Lit(<<"d", "e", "g", "r", "e", "e">>)>>), Context>>),
  \* Education(?:al)?\s+Requirements?:[^•\n.]+
  Cat(<<Lit(<<"E", "d", "u", "c", "a", "t", "i", "o", "n">>), Opt(Lit(<<"a", "l">>)),
        Plus(In(WS))>> \o Requirements \o <<Lit(<<":">>), Context>>) >>

experience_patterns == <<
  \* Experience[^:]*:\s*([^\n\r•]*)
  Cat(<<Lit(<<"E", "x", "p", "e", "r", "i", "e", "n", "c", "e">>), Star(NotIn({":"})),
        Lit(<<":">>)>> \o LabelValue),
  \* Requirements?[^:]*:\s*([^\n\r•]*)
  Cat(Requirements \o <<Star(NotIn({":"})), Lit(<<":">>)>> \o LabelValue),
  \* \d+[+]?\s+years?(?:\s+of)?\s+experience[^•\n.]+
  Cat(<<Plus(In(DIGITS)), Opt(In({"+"})), Plus(In(WS))>> \o Years
        \o <<Opt(Cat(<<Plus(In(WS)), Lit(<<"o", "f">>)>>)), Plus(In(WS)),
             Lit(<<"e", "x", "p", "e", "r", "i", "e", "n", "c", "e">>), Context>>),
  \* [Mm]inimum\s+(?:\d+|one|two|three|four|five)\s+years?[^•\n.]+
  Cat(<<In({"M", "m"}), Lit(<<"i", "n", "i", "m", "u", "m">>), Plus(In(WS)),
        Alt(<<Plus(In(DIGITS)), Lit(<<"o", "n", "e">>), Lit(<<"t", "w", "o">>),
              Lit(<<"t", "h", "r", "e", "e">>), Lit(<<"f", "o", "u", "r">>),
              Lit(<<"f", "i", "v", "e">>)>>),
        Plus(In(WS))>> \o Years \o <<Context>>) >>

(***************************************************************************)
(* extract_additional_details                                              *)
(***************************************************************************)
\* A description that is no string: the float NaN pandas holds for a missing cell.
NaN == <<"NaN">>
IsStr(d) == d # None /\ d # NaN

LETTERS == DOMAIN LowerMap \cup {LowerMap[c] : c \in DOMAIN LowerMap}

\* BeautifulSoup(job_description, 'html.parser').get_text(): the text outside the
\* tags, a tag being "<", a letter or "/", and everything up to the next ">".
get_text(d) ==
  LET n == Len(d)
      opens == {a \in 1..n : /\ d[a] = "<"
                             /\ a < n
                             /\ d[a + 1] \in LETTERS \cup {"/"}
                             /\ \E b \in (a + 1)..n : d[b] = ">"}
      CloseOf(a) == CHOOSE b \in (a + 1)..n :
                      d[b] = ">" /\ \A c \in (a + 1)..(b - 1) : d[c] # ">"
      kept == {p \in 1..n : ~\E a \in opens : a <= p /\ p <= CloseOf(a)}
      Nth(j) == CHOOSE p \in kept : Cardinality({q \in kept : q <= p}) = j
  IN IF opens = {} THEN d ELSE [j \in 1..Cardinality(kept) |-> d[Nth(j)]]

\* JobDetails(): every field None
JobDetails ==
  [summary |-> None, essential_functions |-> NoneList, education |-> None, experience |-> None]

RECURSIVE FindAllFrom(_, _, _)
\* re.findall: group 1 of every match, left to right, the matches not overlapping.
FindAllFrom(txt, re, from) ==
  LET m == SearchFrom(txt, re, from)
  IN IF m.s = 0 THEN <<>>
     ELSE <<GroupOrWhole(txt, re, m)>>
            \o FindAllFrom(txt, re, IF m.e > m.s THEN m.e ELSE m.e + 1)

findall(txt, re) == FindAllFrom(txt, re, 1)

RECURSIVE FirstMatches(_, _, _)
\* for pattern in functions_patterns: matches = re.findall(...); if matches:
\* functions_text = matches[0]; break  -- matches[0] is what re.search finds.
FirstMatches(text, patterns, n) ==
  IF n > Len(patterns) THEN None
  ELSE LET m == Search(text, patterns[n])
       IN IF m.s # 0 THEN GroupOrWhole(text, patterns[n], m)
          ELSE FirstMatches(text, patterns, n + 1)

\* Mutant of StripAll: the bullet bodies are not stripped.
StripAllKeepSpace(points) == SelectSeq(points, LAMBDA p : Strip(p) # <<>>)

RECURSIVE StripAll(_)
\* [point.strip() for point in bullet_points if point.strip()]
StripAll(points) ==
  IF points = <<>> THEN <<>>
  ELSE LET p == Strip(Head(points))
       IN (IF p # <<>> THEN <<p>> ELSE <<>>) \o StripAll(Tail(points))

\* Mutant of ExtractSummary: no fallback to the first FALLBACK_LEN characters.
ExtractSummaryNoFallback(text) == safe_extract(text, summary_patterns)

ExtractSummary(text) ==
  LET s == safe_extract(text, summary_patterns)
  IN IF Truthy(s) THEN s
     ELSE Strip(SubSeq(text, 1, IF Len(text) < FALLBACK_LEN THEN Len(text) ELSE FALLBACK_LEN))

ExtractFunctions(text) ==
  LET functions_text == FirstMatches(text, functions_patterns, 1)
  IN IF Truthy(functions_text) THEN StripAll(findall(functions_text, bullet_pattern))
     ELSE NoneList

\* What a call that lets an exception out gives its caller.
Raised == [raised |-> TRUE]

\* Mutant of extract_additional_details: no try/except around the extraction.
extract_unguarded(job_description) ==
  IF ~IsStr(job_description) THEN Raised
  ELSE LET text == get_text(job_description)
       IN [summary |-> ExtractSummary(text),
           essential_functions |-> ExtractFunctions(text),
           education |-> safe_extract(text, education_patterns),
           experience |-> safe_extract(text, experience_patterns)]

extract_additional_details(job_description) ==
  IF ~IsStr(job_description) THEN JobDetails
  ELSE LET text == get_text(job_description)
       IN [summary |-> ExtractSummary(text),
           essential_functions |-> ExtractFunctions(text),
           education |-> safe_extract(text, education_patterns),
           experience |-> safe_extract(text, experience_patterns)]

(***************************************************************************)
(* Inputs: the posting texts and descriptions the model is run on          *)
(***************************************************************************)
\* "Essential Functions: - Build features - Fix bugs\nEducation: Bachelor's degree required"
ExampleText ==
  <<"E", "s", "s", "e", "n", "t", "i", "a", "l", " ", "F", "u", "n", "c", "t", "i",
    "o", "n", "s", ":", " ", "-", " ", "B", "u", "i", "l", "d", " ", "f", "e", "a",
    "t", "u", "r", "e", "s", " ", "-", " ", "F", "i", "x", " ", "b", "u", "g", "s",
    NL, "E", "d", "u", "c", "a", "t", "i", "o", "n", ":", " ", "B", "a", "c", "h",
    "e", "l", "o", "r", "'", "s", " ", "d", "e", "g", "r", "e", "e", " ", "r", "e",
    "q", "u", "i", "r", "e", "d">>

\* 'Build features - Fix bugs'
ExampleFunctions ==
  <<"B", "u", "i", "l", "d", " ", "f", "e", "a", "t", "u", "r", "e", "s", " ", "-",
    " ", "F", "i", "x", " ", "b", "u", "g", "s">>

\* 'Build features'
BuildFeatures ==
  <<"B", "u", "i", "l", "d", " ", "f", "e", "a", "t", "u", "r", "e", "s">>

\* 'Fix bugs'
FixBugs ==
  <<"F", "i", "x", " ", "b", "u", "g", "s">>

\* 'Full-time work'
FullTimeWork ==
  <<"F", "u", "l", "l", "-", "t", "i", "m", "e", " ", "w", "o", "r", "k">>

\* "Bachelor's degree required"
BachelorsDegreeRequired ==
  <<"B", "a", "c", "h", "e", "l", "o", "r", "'", "s", " ", "d", "e", "g", "r", "e",
    "e", " ", "r", "e", "q", "u", "i", "r", "e", "d">>

\* 'Essential Functions:'
EssentialFunctionsHeader ==
  <<"E", "s", "s", "e", "n", "t", "i", "a", "l", " ", "F", "u", "n", "c", "t", "i",
    "o", "n", "s", ":">>

\* 'Join our team.\n'
Intro ==
  <<"J", "o", "i", "n", " ", "o", "u", "r", " ", "t", "e", "a", "m", ".", NL>>

\* "Education: Bachelor's degree required"
EducationLine ==
  <<"E", "d", "u", "c", "a", "t", "i", "o", "n", ":", " ", "B", "a", "c", "h", "e",
    "l", "o", "r", "'", "s", " ", "d", "e", "g", "r", "e", "e", " ", "r", "e", "q",
    "u", "i", "r", "e", "d">>

\* '   '
Blank ==
  <<" ", " ", " ">>

\* '<p></p>'
EmptyParagraph ==
  <<"<", "p", ">", "<", "/", "p", ">">>

\* 'Great job.'
GreatJob ==
  <<"G", "r", "e", "a", "t", " ", "j", "o", "b", ".">>

\* '<p>Great job.</p>'
Tagged ==
  <<"<", "p", ">", "G", "r", "e", "a", "t", " ", "j", "o", "b", ".", "<", "/", "p",
    ">">>

\* 'We sell. Duties:\n- Sell\n- Buy\nEducation: BS\nExperience: 2 years'
FullPosting ==
  <<"W", "e", " ", "s", "e", "l", "l", ".", " ", "D", "u", "t", "i", "e", "s", ":",
    NL, "-", " ", "S", "e", "l", "l", NL, "-", " ", "B", "u", "y", NL, "E", "d", "u",
    "c", "a", "t", "i", "o", "n", ":", " ", "B", "S", NL, "E", "x", "p", "e", "r",
    "i", "e", "n", "c", "e", ":", " ", "2", " ", "y", "e", "a", "r", "s">>

\* 'Hiring now. Education:'
EmptyLabel ==
  <<"H", "i", "r", "i", "n", "g", " ", "n", "o", "w", ".", " ", "E", "d", "u", "c",
    "a", "t", "i", "o", "n", ":">>

\* 'Education: BS'
EducationOnly ==
  <<"E", "d", "u", "c", "a", "t", "i", "o", "n", ":", " ", "B", "S">>

\* 'Hello world'
Hello ==
  <<"H", "e", "l", "l", "o", " ", "w", "o", "r", "l", "d">>

\* 'Team\n- Sell\n* Buy\n3+ years of experience needed'
ListOnly ==
  <<"T", "e", "a", "m", NL, "-", " ", "S", "e", "l", "l", NL, "*", " ", "B", "u",
    "y", NL, "3", "+", " ", "y", "e", "a", "r", "s", " ", "o", "f", " ", "e", "x",
    "p", "e", "r", "i", "e", "n", "c", "e", " ", "n", "e", "e", "d", "e", "d">>

\* k spaces
Pad(k) == [j \in 1..k |-> " "]

\* Bounds of the model
MaxBullets == 2
PadWindow == 1
MaxWanted == 27
MaxOver == 1
MaxUnder == 1

\* A bullet line of a section: the text of the line and the bullet body in it.
BulletLines ==
  { [text |-> <<"-", " ">> \o BuildFeatures, body |-> BuildFeatures],
    [text |-> <<"*", " ", " ">> \o FixBugs \o <<" ">>, body |-> FixBugs],
    [text |-> <<BULLET>> \o FullTimeWork, body |-> FullTimeWork] }

BulletRuns == UNION {[1..n -> BulletLines] : n \in 1..MaxBullets}

RECURSIVE LinesOf(_)
\* Every bullet line on a line of its own.
LinesOf(run) ==
  IF run = <<>> THEN <<>> ELSE <<NL>> \o Head(run).text \o LinesOf(Tail(run))

BodiesOf(run) == [n \in 1..Len(run) |-> run[n].body]

\* A text with an "Essential Functions:" section of bullet lines.
Section(pre, run, post) == pre \o EssentialFunctionsHeader \o LinesOf(run) \o post

Befores == {<<>>, Intro}
Afters == {<<>>, <<NL>> \o EducationLine}

SectionTexts == {Section(pre, run, post) : pre \in Befores, run \in BulletRuns, post \in Afters}

\* Texts that start with a run of spaces, of a length around the lengths the summary
\* patterns and the fallback slice cut at.
PadLens == {0, 1, SUMMARY_MIN} \cup ((FALLBACK_LEN - PadWindow)..(FALLBACK_LEN + PadWindow))
SummaryTexts == {Pad(k) \o w : k \in PadLens, w \in {<<>>, Hello, GreatJob, EducationOnly}}

\* The descriptions of the postings the job source lists, in the order it lists them.
Descriptions == <<
  GreatJob, None, FullPosting, <<>>, Blank, NaN, EmptyLabel, EmptyParagraph, ListOnly,
  Pad(FALLBACK_LEN) \o EducationOnly, Tagged >>

ExtractInputs ==
  SectionTexts \cup SummaryTexts \cup {ExampleText}
    \cup {Descriptions[n] : n \in {m \in 1..Len(Descriptions) : Descriptions[m] # None}}

(***************************************************************************)
(* State                                                                   *)
(***************************************************************************)
VARIABLES
  results_wanted,   \* self.results_wanted
  pc,               \* where scrape (or extract_additional_details) is
  offset,           \* scrape: offset
  total_results,    \* scrape: total_results
  all_jobs,         \* scrape: all_jobs, the rows in order
  batch,            \* scrape: batch, what scrape_batch returned
  requests,         \* the calls of scrape_jobs made so far, and what each did
  sleeps,           \* the number of time.sleep(2) calls made so far
  index,            \* scrape: the row the pipeline is at (1-based)
  valid_jobs,       \* scrape: valid_jobs
  job_description,  \* extract_additional_details: job_description
  details,          \* the JobDetails extracted last
  extracted         \* what extract_additional_details gives for each description the
                    \* source lists: a pure function, held here to compute it once

vars == <<results_wanted, pc, offset, total_results, all_jobs, batch, requests, sleeps,
          index, valid_jobs, job_description, details, extracted>>

batch_size == 25
BATCH_WANTED == 25

(***************************************************************************)
(* The job source (jobspy.scrape_jobs), at its interface                   *)
(***************************************************************************)
\* The posting the source lists at position g (1-based).
Posting(g) == [id |-> g, description |-> Descriptions[(g % Len(Descriptions)) + 1]]

\* A page of n postings from the offset on.
Page(off, n) == [j \in 1..n |-> Posting(off + j)]

\* The page lengths the source answers a request for BATCH_WANTED with: none, short,
\* exact, over (several sites each deliver up to BATCH_WANTED).
PageLens == {0, 1, BATCH_WANTED - 1, BATCH_WANTED, BATCH_WANTED + MaxOver}

(***************************************************************************)
(* scrape: the collection loop                                             *)
(***************************************************************************)
\* extract_additional_details on the descriptions the source lists, computed once.
DetailsTable ==
  {<<Descriptions[n], extract_additional_details(Descriptions[n])>> :
     n \in {m \in 1..Len(Descriptions) : Descriptions[m] # None}}

\* self.extract_additional_details(job['description'])
Details(d) == (CHOOSE t \in extracted : t[1] = d)[2]

Init ==
  /\ extracted = DetailsTable
  /\ results_wanted \in 0..MaxWanted
  /\ pc = "loop"
  /\ offset = 0
  /\ total_results = 0
  /\ all_jobs = <<>>
  /\ batch = <<>>
  /\ requests = <<>>
  /\ sleeps = 0
  /\ index = 1
  /\ valid_jobs = <<>>
  /\ job_description = None
  /\ details = JobDetails

\* Mutant of Continue: the loop runs once more when the target is met exactly.
ContinueInclusive == total_results <= results_wanted

\* while total_results < self.results_wanted
Continue == total_results < results_wanted

\* scrape_batch, except branch: pd.DataFrame()
EmptyFrame == <<>>

\* Mutant of NoMoreResults: an empty batch does not end the loop.
NeverBreak(b) == FALSE

\* if batch.empty or len(batch) == 0: break
NoMoreResults(b) == b = <<>>

\* pd.concat([all_jobs, batch], ignore_index=True)
Concat(all, b) == all \o b

\* Mutant of NextOffset: the offset advances by the number of postings received.
NextOffsetByCount(off) == off + Len(batch)

\* offset += batch_size
NextOffset(off) == off + batch_size

\* batch = self.scrape_batch(search_term, offset), scrape_jobs returning a page
ScrapeBatchReturns(n) ==
  /\ pc = "loop"
  /\ Continue
  /\ batch' = Page(offset, n)
  /\ requests' = Append(requests, [offset |-> offset, raised |-> FALSE, n |-> n])
  /\ pc' = "batch"
  /\ UNCHANGED <<results_wanted, offset, total_results, all_jobs, sleeps, index,
                 valid_jobs, job_description, details, extracted>>

\* Mutant of ScrapeBatchRaises: scrape_batch lets the provider error out, and scrape
\* ends in its own except clause.
ScrapeBatchPropagates ==
  /\ pc = "loop"
  /\ Continue
  /\ requests' = Append(requests, [offset |-> offset, raised |-> TRUE, n |-> 0])
  /\ pc' = "failed"
  /\ UNCHANGED <<results_wanted, offset, total_results, all_jobs, batch, sleeps, index,
                 valid_jobs, job_description, details, extracted>>

\* batch = self.scrape_batch(search_term, offset), scrape_jobs raising
ScrapeBatchRaises ==
  /\ pc = "loop"
  /\ Continue
  /\ batch' = EmptyFrame
  /\ requests' = Append(requests, [offset |-> offset, raised |-> TRUE, n |-> 0])
  /\ pc' = "batch"
  /\ UNCHANGED <<results_wanted, offset, total_results, all_jobs, sleeps, index,
                 valid_jobs, job_description, details, extracted>>

\* Mutant of Break: an empty batch sends the loop back to its head, to ask again.
BreakAndRetry ==
  /\ pc = "batch"
  /\ NoMoreResults(batch)
  /\ pc' = "loop"
  /\ UNCHANGED <<results_wanted, offset, total_results, all_jobs, batch, requests,
                 sleeps, index, valid_jobs, job_description, details, extracted>>

\* the empty batch: break
Break ==
  /\ pc = "batch"
  /\ NoMoreResults(batch)
  /\ pc' = "process"
  /\ UNCHANGED <<results_wanted, offset, total_results, all_jobs, batch, requests,
                 sleeps, index, valid_jobs, job_description, details, extracted>>

\* the rest of the loop body: concat, count, advance, sleep
Accumulate ==
  /\ pc = "batch"
  /\ ~NoMoreResults(batch)
  /\ all_jobs' = Concat(all_jobs, batch)
  /\ total_results' = Len(all_jobs')
  /\ offset' = NextOffset(offset)
  /\ sleeps' = sleeps + 1
  /\ pc' = "loop"
  /\ UNCHANGED <<results_wanted, batch, requests, index, valid_jobs, job_description,
                 details, extracted>>

\* the loop condition false: on to the pipeline
TargetReached ==
  /\ pc = "loop"
  /\ ~Continue
  /\ pc' = "process"
  /\ UNCHANGED <<results_wanted, offset, total_results, all_jobs, batch, requests,
                 sleeps, index, valid_jobs, job_description, details, extracted>>

(***************************************************************************)
(* scrape: the per-posting pipeline                                        *)
(***************************************************************************)
\* 'description' in job and job['description']: None and "" are falsy, NaN is not
HasDescription(job) == job.description # None /\ job.description # <<>>

\* Mutant of Accept: every field is asked for (the gate of the earlier scraper).
AcceptAllFields(d) ==
  /\ Truthy(d.summary)
  /\ TruthyList(d.essential_functions)
  /\ Truthy(d.education)
  /\ Truthy(d.experience)

\* if details.summary
Accept(d) == Truthy(d.summary)

\* repr of a str: single quotes, double quotes when it holds ' and no "
\* (the texts here hold no backslash and no control character)
PyRepr(s) ==
  LET q == IF (\E n \in 1..Len(s) : s[n] = "'") /\ ~(\E n \in 1..Len(s) : s[n] = "\"")
           THEN "\"" ELSE "'"
  IN <<q>> \o s \o <<q>>

RECURSIVE PyJoin(_)
PyJoin(items) ==
  IF items = <<>> THEN <<>>
  ELSE PyRepr(Head(items))
         \o (IF Len(items) > 1 THEN <<",", " ">> ELSE <<>>) \o PyJoin(Tail(items))

\* str(details.essential_functions)
PyStr(items) == <<"[">> \o PyJoin(items) \o <<"]">>

\* "Not specified"
NotSpecified ==
  <<"N", "o", "t", " ", "s", "p", "e", "c", "i", "f", "i", "e", "d">>

\* Mutant of Enrich: education and experience are merged in as extracted.
EnrichNoSentinel(job, row, d) ==
  [row |-> row, id |-> job.id, description |-> job.description,
   summary |-> d.summary,
   essential_functions |->
     IF TruthyList(d.essential_functions) THEN PyStr(d.essential_functions) ELSE None,
   education |-> d.education,
   experience |-> d.experience]

\* The row, with the four fields merged in.
Enrich(job, row, d) ==
  [row |-> row, id |-> job.id, description |-> job.description,
   summary |-> d.summary,
   essential_functions |->
     IF TruthyList(d.essential_functions) THEN PyStr(d.essential_functions) ELSE None,
   education |-> IF Truthy(d.education) THEN d.education ELSE NotSpecified,
   experience |-> IF Truthy(d.experience) THEN d.experience ELSE NotSpecified]

\* Mutant of KeepJob: the job is put first.
KeepJobFirst(valid, job) == <<job>> \o valid

\* valid_jobs.append(job)
KeepJob(valid, job) == Append(valid, job)

\* One turn of: for index, job in all_jobs.iterrows()
ProcessJob ==
  /\ pc = "process"
  /\ index <= Len(all_jobs)
  /\ LET job == all_jobs[index]
     IN IF HasDescription(job)
        THEN LET d == Details(job.description)
             IN IF d = Raised
                THEN UNCHANGED <<valid_jobs, job_description, details, extracted>>
                ELSE /\ job_description' = job.description
                     /\ details' = d
                     /\ valid_jobs' = IF Accept(d)
                                      THEN KeepJob(valid_jobs, Enrich(job, index, d))
                                      ELSE valid_jobs
        ELSE UNCHANGED <<valid_jobs, job_description, details, extracted>>
  /\ index' = index + 1
  /\ UNCHANGED <<results_wanted, pc, offset, total_results, all_jobs, batch, requests,
                 sleeps, extracted>>

\* enhanced_jobs = pd.DataFrame(valid_jobs); return enhanced_jobs
Return ==
  /\ pc = "process"
  /\ index > Len(all_jobs)
  /\ pc' = "done"
  /\ UNCHANGED <<results_wanted, offset, total_results, all_jobs, batch, requests,
                 sleeps, index, valid_jobs, job_description, details, extracted>>

Next ==
  \/ \E n \in PageLens : ScrapeBatchReturns(n)
  \/ ScrapeBatchRaises
  \/ Break
  \/ Accumulate
  \/ TargetReached
  \/ ProcessJob
  \/ Return

Spec == Init /\ [][Next]_vars

\* scrape for any results_wanted, also one below 0, run to its end: the interpreter
\* takes the next step of the method as long as there is one, and a call of
\* scrape_jobs comes back, with a page of any length or with an error.
InitAnyTarget ==
  /\ extracted = DetailsTable
  /\ results_wanted \in (0 - MaxUnder)..MaxWanted
  /\ pc = "loop"
  /\ offset = 0
  /\ total_results = 0
  /\ all_jobs = <<>>
  /\ batch = <<>>
  /\ requests = <<>>
  /\ sleeps = 0
  /\ index = 1
  /\ valid_jobs = <<>>
  /\ job_description = None
  /\ details = JobDetails

SpecFair == InitAnyTarget /\ [][Next]_vars /\ WF_vars(Next)

(***************************************************************************)
(* extract_additional_details on its own, over the input texts             *)
(***************************************************************************)
InitExtract ==
  /\ extracted = {}
  /\ job_description \in ExtractInputs
  /\ pc = "extract"
  /\ details = JobDetails
  /\ results_wanted = 0
  /\ offset = 0
  /\ total_results = 0
  /\ all_jobs = <<>>
  /\ batch = <<>>
  /\ requests = <<>>
  /\ sleeps = 0
  /\ index = 1
  /\ valid_jobs = <<>>

ExtractDetails ==
  /\ pc = "extract"
  /\ details' = extract_additional_details(job_description)
  /\ pc' = "extracted"
  /\ UNCHANGED <<results_wanted, offset, total_results, all_jobs, batch, requests,
                 sleeps, index, valid_jobs, job_description, extracted>>

NextExtract == ExtractDetails

SpecExtract == InitExtract /\ [][NextExtract]_vars

(***************************************************************************)
(* Properties of the collection loop                                       *)
(***************************************************************************)
Last(q) == q[Len(q)]

\* ceil(a / b)
Ceil(a, b) == (a + b - 1) \div b

IsPrefix(a, b) == Len(a) <= Len(b) /\ SubSeq(b, 1, Len(a)) = a

RECURSIVE Received(_)
\* The postings of the pages the requests brought, in the order they came.
Received(q) ==
  IF q = <<>> THEN <<>>
  ELSE Received(SubSeq(q, 1, Len(q) - 1)) \o Page(Last(q).offset, Last(q).n)

CollectionOver == pc \in {"process", "done"}
NoEmptyOrFault == \A n \in 1..Len(requests) : ~requests[n].raised /\ requests[n].n > 0
AllFull == \A n \in 1..Len(requests) : requests[n].n >= BATCH_WANTED

\* C1 as stated: a page request that raises a provider error does not end the
\* collection; so a collection that is over and whose last request raised has
\* reached its target.
C1_ErrorDoesNotEndCollection ==
  (CollectionOver /\ requests # <<>> /\ Last(requests).raised)
    => total_results >= results_wanted

\* C1 as amended: a page request that raises a provider error is taken as an empty
\* page, and the collection ends in that iteration: the batch is empty, no pacing
\* delay follows, no further request is made, and the postings of the earlier pages
\* stay as they are and go to the pipeline.
C1_ErrorEndsCollection ==
  /\ []((requests # <<>> /\ Last(requests).raised)
          => /\ batch = <<>>
             /\ pc \in {"batch", "process", "done"}
             /\ all_jobs = Received(requests))
  /\ [][(requests # <<>> /\ Last(requests).raised)
          => /\ requests' = requests
             /\ sleeps' = sleeps
             /\ offset' = offset
             /\ all_jobs' = all_jobs
             /\ pc' \in {"process", "done"}]_vars

\* C1 witness: the second request raised, below the target, and the pipeline has
\* been handed the first page.
C1_Witness ==
  /\ pc = "process"
  /\ Len(requests) = 2
  /\ Last(requests).raised
  /\ all_jobs # <<>>
  /\ total_results < results_wanted

\* C2 as stated: with no empty page and no fault, at most ceil(targetCount / pageSize)
\* page requests are made, whatever the lengths of the pages.
C2_CeilBoundAnyPageLength ==
  (results_wanted >= 1 /\ NoEmptyOrFault)
    => Len(requests) <= Ceil(results_wanted, batch_size)

\* C2 as amended: with no empty page and no fault, at most targetCount page requests
\* are made (a page adds at least one posting), and at most
\* ceil(targetCount / pageSize) when every page holds at least pageSize postings.
C2_RequestBound ==
  NoEmptyOrFault
    => /\ Len(requests) <= results_wanted
       /\ AllFull => Len(requests) <= Ceil(results_wanted, batch_size)

\* C2 witness: full pages, and the collection over after exactly
\* ceil(targetCount / pageSize) = 2 requests.
C2_Witness ==
  /\ CollectionOver
  /\ NoEmptyOrFault
  /\ AllFull
  /\ Len(requests) = 2
  /\ Ceil(results_wanted, batch_size) = 2

\* C3: the loop ends in the iteration that receives an empty page, whatever the
\* count: after an empty page no further request is made, the loop goes on to the
\* pipeline (nothing is raised), and the postings of the earlier pages are all in
\* the accumulated set the pipeline is handed.
C3_EmptyPageEndsLoop ==
  /\ [](CollectionOver => all_jobs = Received(requests))
  /\ [][(requests # <<>> /\ Last(requests).n = 0)
          => /\ requests' = requests
             /\ all_jobs' = all_jobs
             /\ pc' \in {"process", "done"}]_vars

\* C3 witness: an empty page (no fault) after two pages, below the target.
C3_Witness ==
  /\ pc = "process"
  /\ Len(requests) = 3
  /\ Last(requests).n = 0
  /\ ~Last(requests).raised
  /\ Len(all_jobs) = 2
  /\ total_results < results_wanted

\* C4: at every loop head the offset is pageSize times the number of pages appended
\* so far and total_results is the number of postings accumulated; a step that
\* changes the accumulated set appends the batch to it and advances the offset by
\* exactly pageSize.
C4_CollectionState ==
  /\ [](pc = "loop" => /\ offset = batch_size * Len(requests)
                       /\ total_results = Len(all_jobs)
                       /\ all_jobs = Received(requests))
  /\ [][all_jobs' # all_jobs
          => /\ all_jobs' = all_jobs \o batch
             /\ IsPrefix(all_jobs, all_jobs')
             /\ offset' = offset + batch_size]_vars

\* C4 witness: at the loop head after a short page and an over-long one.
C4_Witness ==
  /\ pc = "loop"
  /\ Len(requests) = 2
  /\ requests[1].n = 1
  /\ requests[2].n > batch_size
  /\ offset = 2 * batch_size
  /\ total_results = Len(all_jobs)
  /\ total_results # offset

(***************************************************************************)
(* Properties of the pipeline                                              *)
(***************************************************************************)
\* The rows the pipeline has been through.
Processed == IF CollectionOver THEN 1..(index - 1) ELSE {}

\* The rows whose description was handed to extract_additional_details.
Extracted == {i \in Processed : HasDescription(all_jobs[i])}

DetailsOfRow(i) == Details(all_jobs[i].description)

RowKept(i) == \E n \in 1..Len(valid_jobs) : valid_jobs[n].row = i

\* The rows 1..k that have a description with a non-empty summary, in order.
RECURSIVE KeptRows(_)
KeptRows(k) ==
  IF k = 0 THEN <<>>
  ELSE KeptRows(k - 1)
         \o (IF HasDescription(all_jobs[k]) /\ Truthy(DetailsOfRow(k).summary)
             THEN <<k>> ELSE <<>>)

\* C5: a posting whose description was processed is kept iff the extracted summary
\* is present and non-empty, whatever the other three fields are.
C5_GateIsSummaryOnly ==
  \A i \in Extracted : RowKept(i) <=> Truthy(DetailsOfRow(i).summary)

\* C5 witness: the pipeline done, having kept a row with a summary and none of the
\* other fields, kept a row with all four, and dropped a row that has an education
\* and no summary.
C5_Witness ==
  /\ pc = "done"
  /\ \E i \in Extracted :
       /\ RowKept(i)
       /\ ~TruthyList(DetailsOfRow(i).essential_functions)
       /\ ~Truthy(DetailsOfRow(i).education)
       /\ ~Truthy(DetailsOfRow(i).experience)
  /\ \E i \in Extracted :
       /\ RowKept(i)
       /\ TruthyList(DetailsOfRow(i).essential_functions)
       /\ Truthy(DetailsOfRow(i).education)
       /\ Truthy(DetailsOfRow(i).experience)
  /\ \E i \in Extracted :
       /\ ~RowKept(i)
       /\ Truthy(DetailsOfRow(i).education)

\* C6: the output is exactly the input rows that have a non-empty description and
\* pass the gate, each once, in input order, each with the posting it came from;
\* rows without a description and rejected rows are dropped and the pipeline goes
\* on to its end.
C6_OutputIsOrderedSubsequence ==
  /\ CollectionOver =>
       /\ Len(valid_jobs) = Len(KeptRows(index - 1))
       /\ \A n \in 1..Len(valid_jobs) :
            /\ valid_jobs[n].row = KeptRows(index - 1)[n]
            /\ valid_jobs[n].id = all_jobs[valid_jobs[n].row].id
            /\ valid_jobs[n].description = all_jobs[valid_jobs[n].row].description
  /\ pc = "done" => index = Len(all_jobs) + 1

\* C6 witness: the pipeline done, with two rows kept and, between them, a row
\* without a description and a rejected row.
C6_Witness ==
  /\ pc = "done"
  /\ \E a, b \in Processed :
       /\ RowKept(a) /\ RowKept(b)
       /\ \E i, j \in (a + 1)..(b - 1) :
            /\ ~HasDescription(all_jobs[i])
            /\ HasDescription(all_jobs[j]) /\ ~RowKept(j)

\* C7: in every row of the output education and experience are the extracted text
\* when there is one and "Not specified" otherwise, never absent; summary is the
\* extracted, non-empty summary; essential_functions is absent when no bullets
\* were extracted.
C7_MergedFields ==
  \A n \in 1..Len(valid_jobs) :
    LET r == valid_jobs[n]
        d == Details(r.description)
    IN /\ Truthy(r.education)
       /\ Truthy(r.experience)
       /\ r.education = (IF Truthy(d.education) THEN d.education ELSE NotSpecified)
       /\ r.experience = (IF Truthy(d.experience) THEN d.experience ELSE NotSpecified)
       /\ r.summary = d.summary
       /\ Truthy(r.summary)
       /\ ~TruthyList(d.essential_functions) => r.essential_functions = None

\* C7 witness: the output holds a row with both sentinels and no essential
\* functions, a row whose empty extracted education became the sentinel, and a row
\* with extracted education, experience and essential functions.
C7_Witness ==
  /\ \E n \in 1..Len(valid_jobs) :
       /\ Details(valid_jobs[n].description).education = None
       /\ valid_jobs[n].education = NotSpecified
       /\ valid_jobs[n].experience = NotSpecified
       /\ valid_jobs[n].essential_functions = None
  /\ \E n \in 1..Len(valid_jobs) :
       /\ Details(valid_jobs[n].description).education = <<>>
       /\ valid_jobs[n].education = NotSpecified
  /\ \E n \in 1..Len(valid_jobs) :
       /\ valid_jobs[n].education \notin {NotSpecified, None}
       /\ valid_jobs[n].experience \notin {NotSpecified, None}
       /\ valid_jobs[n].essential_functions # None

\* C10: a processed posting whose extraction raised has a JobDetails with all four
\* fields absent and is not in the output, every later processed posting that
\* passes the gate is in the output, and the pipeline processes every posting.
C10_ExtractionFaultIsPerItem ==
  /\ \A i \in Extracted :
       ~IsStr(all_jobs[i].description)
         => /\ DetailsOfRow(i) = JobDetails
            /\ ~RowKept(i)
            /\ \A j \in Processed :
                 (j > i /\ HasDescription(all_jobs[j]) /\ Accept(DetailsOfRow(j)))
                   => RowKept(j)
  /\ pc = "done" => index = Len(all_jobs) + 1

\* C10 witness: the pipeline done, a posting whose extraction raised, and a later
\* posting in the output.
C10_Witness ==
  /\ pc = "done"
  /\ \E i, j \in Extracted :
       /\ ~IsStr(all_jobs[i].description)
       /\ i < j
       /\ RowKept(j)

(***************************************************************************)
(* Properties of extract_additional_details                                *)
(***************************************************************************)
\* The call has returned, and its argument was a string.
ExtractedText == pc = "extracted" /\ IsStr(job_description)

\* The text has a character that is no whitespace among its first k characters.
InkWithin(text, k) == \E n \in 1..Len(text) : n <= k /\ text[n] \notin WS

\* C8 as stated: the summary of a non-empty normalized text is never absent, the
\* summary of the empty text is.
C8_SummaryIffTextNonEmpty ==
  ExtractedText =>
    LET text == get_text(job_description)
    IN /\ text # <<>> => Truthy(details.summary)
       /\ text = <<>> => ~Truthy(details.summary)

\* C8 as amended: the summary of a normalized text that has a non-whitespace
\* character among its first 200 characters is non-empty; the summary of the empty
\* text, and of a text of whitespace only, is the empty string (not None), which
\* the gate takes as absent.
C8_SummaryOfInkedText ==
  ExtractedText =>
    LET text == get_text(job_description)
    IN /\ InkWithin(text, FALLBACK_LEN) => Truthy(details.summary)
       /\ ~InkWithin(text, Len(text)) => details.summary = <<>>
       /\ details.summary # None

\* C8 witness: a text with neither a period nor a line of 50 characters whose last
\* character within the first 200 is its first non-whitespace one: the fallback
\* gives the summary.
C8_Witness ==
  /\ ExtractedText
  /\ job_description = Pad(FALLBACK_LEN - 1) \o Hello
  /\ details.summary = <<"H">>

\* C9 as stated: the essential functions of a text with an "Essential Functions:"
\* section are the bullet bodies, one item per bullet; for the example text they
\* are "Build features" and "Fix bugs", the education is "Bachelor's degree
\* required" and the experience is absent.
C9_OneItemPerBullet ==
  /\ \A pre \in Befores, run \in BulletRuns, post \in Afters :
       (ExtractedText /\ job_description = Section(pre, run, post))
         => details.essential_functions = BodiesOf(run)
  /\ (ExtractedText /\ job_description = ExampleText)
       => /\ details.essential_functions = <<BuildFeatures, FixBugs>>
          /\ details.education = BachelorsDegreeRequired
          /\ details.experience = None

\* C9 as amended: when the bullets after "Essential Functions:" are each on a line
\* of its own, the essential functions are the bullet bodies, trimmed and without
\* the markers, one item per line and in order; bullets that share a line are one
\* item: for the example text the essential functions are the single item
\* "Build features - Fix bugs", the education is "Bachelor's degree required" and
\* the experience is absent.
C9_OneItemPerBulletLine ==
  /\ \A pre \in Befores, run \in BulletRuns, post \in Afters :
       (ExtractedText /\ job_description = Section(pre, run, post))
         => details.essential_functions = BodiesOf(run)
  /\ (ExtractedText /\ job_description = ExampleText)
       => /\ details.essential_functions = <<ExampleFunctions>>
          /\ details.education = BachelorsDegreeRequired
          /\ details.experience = None

\* C9 witness: a section of two bullet lines with different markers, text before it
\* and an education line after it.
C9_Witness ==
  /\ ExtractedText
  /\ \E run \in BulletRuns :
       /\ Len(run) = 2
       /\ BodiesOf(run) = <<FixBugs, FullTimeWork>>
       /\ job_description = Section(Intro, run, <<NL>> \o EducationLine)
       /\ details.essential_functions = <<FixBugs, FullTimeWork>>
       /\ details.education = BachelorsDegreeRequired

(***************************************************************************)
(* Termination of the collection loop                                      *)
(***************************************************************************)
Max0(n) == IF n > 0 THEN n ELSE 0

\* Every call of scrape_jobs so far raised.
EveryCallRaised == \A n \in 1..Len(requests) : requests[n].raised

\* C11: for every results_wanted and every behaviour of the source the collection
\* loop ends, after at most max(results_wanted, 0) page requests; when it has ended
\* the accumulated count is at least results_wanted or the last request gave an
\* empty page or raised; when every call raises (and results_wanted is at least 1,
\* so that there is a call) it ends after one request with nothing accumulated,
\* and scrape goes on to its return with an empty result.
C11_CollectionTerminates ==
  /\ [](Len(requests) <= Max0(results_wanted))
  /\ [](CollectionOver
          => \/ total_results >= results_wanted
             \/ requests # <<>> /\ (Last(requests).raised \/ Last(requests).n = 0))
  /\ []((CollectionOver /\ EveryCallRaised /\ results_wanted >= 1)
          => /\ Len(requests) = 1
             /\ all_jobs = <<>>
             /\ valid_jobs = <<>>)
  /\ <>CollectionOver
  /\ <>(pc = "done")

\* C11 witness: the collection over after exactly results_wanted = 3 requests, each
\* of which brought a page of one posting.
C11_Witness ==
  /\ CollectionOver
  /\ results_wanted = 3
  /\ Len(requests) = 3
  /\ \A n \in 1..3 : requests[n].n = 1
  /\ total_results = results_wanted

====
